---------------------------- MODULE Spec2Model ----------------------------
(***************************************************************************)
(* A model of src/train_gpt2.py: the sharded streaming data loader         *)
(* (DataloaderLite) and the training script that drives it, one process    *)
(* per rank, with the collectives of torch.distributed as barriers.        *)
(*                                                                         *)
(* Tensors of tokens are kept the way torch keeps them: a storage (the     *)
(* shard file they were loaded from), an offset and a size.  Slicing and   *)
(* view() build new descriptors over the same storage; the value of an     *)
(* element is read through the descriptor (At, At2).                       *)
(***************************************************************************)
EXTENDS Integers, Sequences, FiniteSets, TLC

VARIABLES
    ddp,            \* line 311: is RANK set in the environment
    ddp_world_size, \* lines 318/326
    data_root,      \* the shard files on disk: split -> list of token counts
    batch_shape,    \* lines 343-344: the script's B and T
    train_loader,   \* rank -> DataloaderLite object (line 371)
    val_loader,     \* rank -> DataloaderLite object (line 372)
    calls,          \* rank -> next_batch() calls since the last reset()
    hist,           \* rank -> the batches returned since the last reset()
    pass,           \* rank -> the input windows read in the current pass of a shard
    last,           \* rank -> the most recent call of the loader
    pc,             \* rank -> where the process is in the script
    err,            \* rank -> the exception that ended the process, if any
    pg,             \* rank -> the process group: "none", "up", "destroyed"
    step,           \* rank -> the loop variable of line 407
    grad_accum_Steps, \* rank -> line 347
    val_i,          \* rank -> validation batches read in this gate (line 417)
    micro_steps,    \* rank -> the loop variable of line 472
    mode,           \* rank -> model.training: "train" or "eval"
    require_backward_grad_sync, \* rank -> the DDP attribute of line 482
    expect_autograd_hooks,      \* rank -> DDP reducer armed for this backward
    grad,           \* rank -> the .grad of the parameters
    param,          \* rank -> the parameters
    opt,            \* rank -> the optimizer: steps taken, lr of its groups
    ncoll,          \* rank -> collectives entered so far
    ran             \* rank -> the last step that entered each part of the loop body

dlvars == <<train_loader, calls, hist, pass, last>>
envvars == <<ddp, ddp_world_size, data_root, batch_shape>>
ctlvars == <<pc, err, pg, step, grad_accum_Steps, val_i, micro_steps, ncoll, ran>>
netvars == <<mode, require_backward_grad_sync, expect_autograd_hooks, grad, param, opt>>

---------------------------------------------------------------------------
(* Bounds of the loader harness (SpecDL).                                  *)
MaxProcs == 2
MaxShards == 2
MaxLen == 9
MaxCalls == 3
\* the (B, T) pairs a loader is built with in the harness
Shapes == {<<1, 1>>, <<2, 1>>, <<2, 2>>, <<1, 4>>}

\* a shard of the dataset, in tokens
FinewebShard == 100000000
MaxIt == 19100

vocab_size == 50257
total_batch_size == 524288
B == 8
T == 1024
warmup_steps == 715
max_steps == 19073
eval_interval == 100
val_loss_steps == 20
max_norm == 1

Min(a, b) == IF a < b THEN a ELSE b
Max(a, b) == IF a > b THEN a ELSE b

---------------------------------------------------------------------------
(* Shard files and tensors.                                                *)

\* The files of a split, as os.listdir + filter + sorted leaves them.
ShardFiles(root, split) ==
    [k \in 1..Len(root[split]) |->
        [split |-> split, idx |-> k - 1, len |-> root[split][k]]]

\* Token i (0-based) stored in file f.  Shard 0 of the train split is the
\* ramp 0, 1, 2, ...; every other shard is the ramp shifted, so that two
\* shards and two positions of a shard differ.
FileToken(f, i) ==
    (i + 17 * f.idx + (IF f.split = "val" THEN 5 ELSE 0)) % vocab_size

NoTensor == [file |-> [split |-> "none", idx |-> 0, len |-> 0], off |-> 0, n |-> 0]

\* np.load, astype(int32), torch.tensor(dtype=long): a 1-D tensor over the
\* whole file.  Token ids fit 32 bits, the casts keep their values.
load_tokens(f) == [file |-> f, off |-> 0, n |-> f.len]

Numel(t) == t.n
At(t, i) == FileToken(t.file, t.off + i)

\* t[a:b] with 0 <= a <= b: Python clamps both ends to the length.
Slice(t, a, b) ==
    LET lo == Min(a, t.n)
        hi == Min(b, t.n)
    IN  [file |-> t.file, off |-> t.off + lo, n |-> Max(hi - lo, 0)]

\* t[:-1]
DropLast(t) == [t EXCEPT !.n = Max(t.n - 1, 0)]
\* t[1:]
DropFirst(t) == Slice(t, 1, t.n)

\* t.view(B, T) succeeds exactly when t has B*T elements.
CanView(t, rows, cols) == t.n = rows * cols
View(t, rows, cols) == [file |-> t.file, off |-> t.off, B |-> rows, T |-> cols]
At2(v, i, j) == FileToken(v.file, v.off + i * v.T + j)
NoBatch == [file |-> [split |-> "none", idx |-> 0, len |-> 0], off |-> 0, B |-> 0, T |-> 0]

---------------------------------------------------------------------------
(* DataloaderLite.                                                         *)

\* reset(): lines 280-284
reset_keeps_shard(self) ==
    [self EXCEPT !.tokens = load_tokens(self.shards[self.current_shard + 1]),
                 !.current_position = self.B * self.T * self.process_rank]
reset(self) ==
    [self EXCEPT !.current_shard = 0,
                 !.tokens = load_tokens(self.shards[1]),
                 !.current_position = self.B * self.T * self.process_rank]

\* __init__: lines 247-278, for a split that has shards (line 275)
DataloaderLite(rows, cols, process_rank, num_processes, split, root) ==
    reset([B |-> rows, T |-> cols,
           process_rank |-> process_rank, num_processes |-> num_processes,
           shards |-> ShardFiles(root, split),
           current_shard |-> 0, tokens |-> NoTensor, current_position |-> 0])

\* line 289: buf = self.tokens[current_position : current_position + B*T + 1]
BatchBuf(self) ==
    Slice(self.tokens, self.current_position,
          self.current_position + self.B * self.T + 1)

\* line 290: x = buf[:-1]      line 291: y = buf[1:]
InputsOf(buf) == DropLast(buf)
TargetsUnshifted(buf) == DropLast(buf)
TargetsOf(buf) == DropFirst(buf)

\* line 293: current_position += B*T*num_processes
AdvanceByOne(self) ==
    [self EXCEPT !.current_position = @ + self.B * self.T]
Advance(self) ==
    [self EXCEPT !.current_position = @ + self.B * self.T * self.num_processes]

\* line 295: would the next batch (of all processes) overrun the tokens
OverrunOwnWindow(self) ==
    self.current_position + (self.B * self.T + 1) > Numel(self.tokens)
Overrun(self) ==
    self.current_position + (self.B * self.T * self.num_processes + 1)
        > Numel(self.tokens)

\* lines 296-298
RolloverToStart(self) ==
    LET nxt == (self.current_shard + 1) % Len(self.shards)
    IN  [self EXCEPT !.current_shard = nxt,
                     !.tokens = load_tokens(self.shards[nxt + 1]),
                     !.current_position = 0]
Rollover(self) ==
    LET nxt == (self.current_shard + 1) % Len(self.shards)
    IN  [self EXCEPT !.current_shard = nxt,
                     !.tokens = load_tokens(self.shards[nxt + 1]),
                     !.current_position = self.B * self.T * self.process_rank]

\* next_batch(): lines 286-299.  view() raises when the slice is short; the
\* cursor is then as it was.
next_batch(self) ==
    LET buf == BatchBuf(self)
        xs  == InputsOf(buf)
        ys  == TargetsOf(buf)
        adv == Advance(self)
    IN  IF ~CanView(xs, self.B, self.T) \/ ~CanView(ys, self.B, self.T)
        THEN [raised |-> TRUE, self |-> self, x |-> NoBatch, y |-> NoBatch]
        ELSE [raised |-> FALSE,
              self |-> IF Overrun(adv) THEN Rollover(adv) ELSE adv,
              x |-> View(xs, self.B, self.T),
              y |-> View(ys, self.B, self.T)]

---------------------------------------------------------------------------
(* The loader harness: num_processes loaders over one shard set, built     *)
(* with the same B and T, driven by any sequence of reset() and            *)
(* next_batch() calls.                                                     *)

Ranks == 0..(ddp_world_size - 1)

\* The ranks whose loader the harness holds: the loaders are separate objects
\* that share nothing, and every claim is about one rank or about two, so the
\* harness builds the loaders of one pair of ranks at a time.
DLRanks == DOMAIN train_loader
RankPairs == {p \in SUBSET Ranks : Cardinality(p) = Min(2, ddp_world_size)}

ShardLists ==
    UNION {[1..n -> 1..MaxLen] : n \in 1..MaxShards}

NeverRan == [val |-> -1, sample |-> -1, train |-> -1]
NoCall == [status |-> "none", pre |-> 0, x |-> NoBatch, y |-> NoBatch]
NoPass == [shard |-> 0, starts |-> <<>>, done |-> TRUE]

DLInit ==
    /\ ddp \in {TRUE}
    /\ ddp_world_size \in 1..MaxProcs
    /\ \E lens \in ShardLists : data_root = [train |-> lens, val |-> lens]
    /\ batch_shape = [B |-> B, T |-> T]
    /\ \E s \in Shapes, p \in RankPairs :
          train_loader = [w \in p |->
              DataloaderLite(s[1], s[2], w, ddp_world_size, "train", data_root)]
    /\ val_loader = [w \in Ranks |-> 0]
    /\ calls = [w \in DLRanks |-> 0]
    /\ hist = [w \in DLRanks |-> <<>>]
    /\ pass = [w \in DLRanks |-> NoPass]
    /\ last = [w \in DLRanks |-> NoCall]
    /\ pc = [w \in Ranks |-> "harness"]
    /\ err = [w \in Ranks |-> "none"]
    /\ pg = [w \in Ranks |-> "none"]
    /\ step = [w \in Ranks |-> 0]
    /\ grad_accum_Steps = [w \in Ranks |-> 0]
    /\ val_i = [w \in Ranks |-> 0]
    /\ micro_steps = [w \in Ranks |-> 0]
    /\ ncoll = [w \in Ranks |-> 0]
    /\ ran = [w \in Ranks |-> NeverRan]
    /\ mode = [w \in Ranks |-> "eval"]
    /\ require_backward_grad_sync = [w \in Ranks |-> TRUE]
    /\ expect_autograd_hooks = [w \in Ranks |-> FALSE]
    /\ grad = [w \in Ranks |-> 0]
    /\ param = [w \in Ranks |-> 0]
    /\ opt = [w \in Ranks |-> 0]

DLReset(w) ==
    /\ train_loader' = [train_loader EXCEPT ![w] = reset(@)]
    /\ calls' = [calls EXCEPT ![w] = 0]
    /\ hist' = [hist EXCEPT ![w] = <<>>]
    /\ pass' = [pass EXCEPT ![w] = NoPass]
    /\ last' = [last EXCEPT ![w] =
          [status |-> "reset", pre |-> train_loader[w], x |-> NoBatch, y |-> NoBatch]]
    /\ UNCHANGED <<envvars, val_loader, ctlvars, netvars>>

DLNextBatch(w) ==
    /\ calls[w] < MaxCalls
    /\ LET self == train_loader[w]
           r == next_batch(self)
       IN  /\ train_loader' = [train_loader EXCEPT ![w] = r.self]
           /\ calls' = [calls EXCEPT ![w] = @ + 1]
           /\ last' = [last EXCEPT ![w] =
                 [status |-> IF r.raised THEN "raised" ELSE "ok",
                  pre |-> self, x |-> r.x, y |-> r.y]]
           /\ hist' = [hist EXCEPT ![w] =
                 IF r.raised THEN @ ELSE Append(@, [x |-> r.x, y |-> r.y])]
           /\ pass' = [pass EXCEPT ![w] =
                 IF r.raised THEN @
                 ELSE [shard |-> self.current_shard,
                       starts |-> Append(IF @.done THEN <<>> ELSE @.starts,
                                         self.current_position),
                       done |-> Overrun(Advance(self))]]
    /\ UNCHANGED <<envvars, val_loader, ctlvars, netvars>>

DLNext ==
    \/ \E w \in DLRanks : DLReset(w)
    \/ \E w \in DLRanks : DLNextBatch(w)

vars == <<envvars, val_loader, dlvars, ctlvars, netvars>>

SpecDL == DLInit /\ [][DLNext]_vars

---------------------------------------------------------------------------
(* Python floats: IEEE 754 binary64 with round to nearest, ties to even.   *)
(* get_lr computes in them (lines 385-400).                                *)

\* Naturals of any size: little-endian sequences of limbs below LimbBase,
\* the last limb non-zero; <<>> is 0.
LimbBits == 14
LimbBase == 2 ^ LimbBits

Pow2(k) == IF k = 0 THEN 1 ELSE 2 ^ k

Limb(a, i) == IF i <= Len(a) THEN a[i] ELSE 0

RECURSIVE NNorm(_)
NNorm(a) ==
    IF a = <<>> THEN <<>>
    ELSE IF a[Len(a)] = 0 THEN NNorm(SubSeq(a, 1, Len(a) - 1))
    ELSE a

RECURSIVE NFromInt(_)
NFromInt(n) ==
    IF n = 0 THEN <<>> ELSE <<n % LimbBase>> \o NFromInt(n \div LimbBase)

RECURSIVE NAddC(_, _, _, _)
NAddC(a, b, i, c) ==
    IF i > Max(Len(a), Len(b))
    THEN (IF c = 0 THEN <<>> ELSE <<c>>)
    ELSE LET s == Limb(a, i) + Limb(b, i) + c
         IN  <<s % LimbBase>> \o NAddC(a, b, i + 1, s \div LimbBase)
NAdd(a, b) == NAddC(a, b, 1, 0)

\* a - b for a >= b
RECURSIVE NSubC(_, _, _, _)
NSubC(a, b, i, c) ==
    IF i > Len(a) THEN <<>>
    ELSE LET s == a[i] - Limb(b, i) - c
         IN  <<(s + LimbBase) % LimbBase>> \o NSubC(a, b, i + 1, IF s < 0 THEN 1 ELSE 0)
NSub(a, b) == NNorm(NSubC(a, b, 1, 0))

\* -1, 0, 1 as a < b, a = b, a > b
RECURSIVE NCmpAt(_, _, _)
NCmpAt(a, b, i) ==
    IF i = 0 THEN 0
    ELSE IF a[i] < b[i] THEN -1
    ELSE IF a[i] > b[i] THEN 1
    ELSE NCmpAt(a, b, i - 1)
NCmp(a, b) ==
    IF Len(a) < Len(b) THEN -1
    ELSE IF Len(a) > Len(b) THEN 1
    ELSE NCmpAt(a, b, Len(a))

\* a * k for 0 <= k < 2^16
RECURSIVE NMulSmallC(_, _, _, _)
NMulSmallC(a, k, i, c) ==
    IF i > Len(a)
    THEN NFromInt(c)
    ELSE LET s == a[i] * k + c
         IN  <<s % LimbBase>> \o NMulSmallC(a, k, i + 1, s \div LimbBase)
NMulSmall(a, k) == NNorm(NMulSmallC(a, k, 1, 0))

ZeroLimbs(n) == [i \in 1..n |-> 0]

RECURSIVE NMulAt(_, _, _)
NMulAt(a, b, j) ==
    IF j > Len(b) THEN <<>>
    ELSE NAdd(IF b[j] = 0 THEN <<>> ELSE ZeroLimbs(j - 1) \o NMulSmall(a, b[j]),
              NMulAt(a, b, j + 1))
NMul(a, b) == IF a = <<>> THEN <<>> ELSE NNorm(NMulAt(a, b, 1))

\* quotient and remainder of a by d, 0 < d < 2^16
RECURSIVE NDivSmallAt(_, _, _, _)
NDivSmallAt(a, d, i, r) ==
    IF i = 0 THEN [q |-> <<>>, r |-> r]
    ELSE LET cur == r * LimbBase + a[i]
             rest == NDivSmallAt(a, d, i - 1, cur % d)
         IN  [q |-> Append(rest.q, cur \div d), r |-> rest.r]
NDivSmall(a, d) ==
    LET x == NDivSmallAt(a, d, Len(a), 0)
    IN  [q |-> NNorm(x.q), r |-> x.r]

NShl(a, s) ==
    IF a = <<>> THEN <<>>
    ELSE ZeroLimbs(s \div LimbBits) \o NMulSmall(a, Pow2(s % LimbBits))
NShr(a, s) ==
    LET k == s \div LimbBits
    IN  IF k >= Len(a) THEN <<>>
        ELSE NDivSmall(SubSeq(a, k + 1, Len(a)), Pow2(s % LimbBits)).q

SmallBitLen(x) == CHOOSE k \in 0..16 : x < Pow2(k) /\ (k = 0 \/ x >= Pow2(k - 1))
NBitLen(a) ==
    IF a = <<>> THEN 0 ELSE LimbBits * (Len(a) - 1) + SmallBitLen(a[Len(a)])
NIsOdd(a) == a # <<>> /\ a[1] % 2 = 1

\* binary64, positive and normal: value m * 2^e with 2^52 <= m < 2^53, or
\* m = 0; round to nearest, ties to even
Precision == 53
FZero == [m |-> <<>>, e |-> 0]

\* n * 2^e, plus something below one unit of n when sticky, rounded
RoundNearestEven(n, e, sticky) ==
    LET len == NBitLen(n)
    IN  IF len = 0 THEN FZero
        ELSE IF len <= Precision
        THEN [m |-> NShl(n, Precision - len), e |-> e - (Precision - len)]
        ELSE LET s == len - Precision
                 q == NShr(n, s)
                 rem == NSub(n, NShl(q, s))
                 half == NShl(<<1>>, s - 1)
                 c == NCmp(rem, half)
                 up == c > 0 \/ (c = 0 /\ (sticky \/ NIsOdd(q)))
                 q1 == IF up THEN NAdd(q, <<1>>) ELSE q
             IN  IF NBitLen(q1) > Precision
                 THEN [m |-> NShr(q1, 1), e |-> e + s + 1]
                 ELSE [m |-> q1, e |-> e + s]

\* n / d correctly rounded, 0 <= n, 0 < d < 2^16: int / int, and the literals
FFromRatio(n, d) ==
    LET x == NDivSmall(NShl(NFromInt(n), 9 * LimbBits), d)
    IN  RoundNearestEven(x.q, -(9 * LimbBits), x.r # 0)
FFromInt(n) == FFromRatio(n, 1)

FMul(x, y) == RoundNearestEven(NMul(x.m, y.m), x.e + y.e, FALSE)
FDivInt(x, d) ==
    LET q == NDivSmall(NShl(x.m, 5 * LimbBits), d)
    IN  RoundNearestEven(q.q, x.e - 5 * LimbBits, q.r # 0)
Aligned(x, e) == NShl(x.m, x.e - e)
FAdd(x, y) ==
    IF x.m = <<>> THEN y ELSE IF y.m = <<>> THEN x
    ELSE LET e == Min(x.e, y.e)
         IN  RoundNearestEven(NAdd(Aligned(x, e), Aligned(y, e)), e, FALSE)
\* x - y for x >= y
FSub(x, y) ==
    IF y.m = <<>> THEN x
    ELSE LET e == Min(x.e, y.e)
         IN  RoundNearestEven(NSub(Aligned(x, e), Aligned(y, e)), e, FALSE)
FCmp(x, y) ==
    IF x.m = <<>> /\ y.m = <<>> THEN 0
    ELSE IF x.m = <<>> THEN -1
    ELSE IF y.m = <<>> THEN 1
    ELSE IF x.e # y.e THEN (IF x.e < y.e THEN -1 ELSE 1)
    ELSE NCmp(x.m, y.m)
FLe(x, y) == FCmp(x, y) <= 0

---------------------------------------------------------------------------
(* The training script, one process per rank.                              *)

\* line 385: max_lr = 6e-4      line 386: min_lr = max_lr * 0.1
max_lr == FFromRatio(6, 10000)
min_lr == FMul(max_lr, FFromRatio(1, 10))

\* line 397: decay_ratio = (it - warmup_steps) / (max_steps - warmup_steps)
decay_ratio(it) == FFromRatio(it - warmup_steps, max_steps - warmup_steps)

\* get_lr(it): lines 389-400.  The value is kept as the expression that is
\* returned: "warmup" stands for max_lr * num / den, "min" for min_lr, and
\* "cosine" for min_lr + 0.5 * (1 + cos(pi * (num / den))) * (max_lr - min_lr);
\* the assertion of line 398 is the field ok.
get_lr_warmup_from_zero(it) ==
    IF it < warmup_steps
    THEN [branch |-> "warmup", num |-> it, den |-> warmup_steps, ok |-> TRUE]
    ELSE IF it >= max_steps
    THEN [branch |-> "min", num |-> 0, den |-> 1, ok |-> TRUE]
    ELSE [branch |-> "cosine", num |-> it - warmup_steps,
          den |-> max_steps - warmup_steps,
          ok |-> FLe(FZero, decay_ratio(it)) /\ FLe(decay_ratio(it), FFromInt(1))]
get_lr(it) ==
    IF it < warmup_steps
    THEN [branch |-> "warmup", num |-> it + 1, den |-> warmup_steps, ok |-> TRUE]
    ELSE IF it >= max_steps
    THEN [branch |-> "min", num |-> 0, den |-> 1, ok |-> TRUE]
    ELSE [branch |-> "cosine", num |-> it - warmup_steps,
          den |-> max_steps - warmup_steps,
          ok |-> FLe(FZero, decay_ratio(it)) /\ FLe(decay_ratio(it), FFromInt(1))]

\* The float a get_lr expression evaluates to.  The operations of IEEE 754
\* are computed; math.cos is the C library's, of which only this is used:
\* cos(0.0) is 1.0 exactly, its values lie in [-1, 1], and over the grid of
\* arguments pi * k / (max_steps - warmup_steps) it does not increase.  So a
\* cosine value past decay_ratio 0 is kept by its decay_ratio ("cos").
CoeffAtZero == FMul(FFromRatio(1, 2), FAdd(FFromInt(1), FFromInt(1)))
CosineTop == FAdd(min_lr, FMul(CoeffAtZero, FSub(max_lr, min_lr)))
LrValue(l) ==
    IF l.branch = "warmup"
    THEN [kind |-> "fl", v |-> FDivInt(FMul(max_lr, FFromInt(l.num)), l.den),
          ratio |-> FZero]
    ELSE IF l.branch = "min"
    THEN [kind |-> "fl", v |-> min_lr, ratio |-> FZero]
    ELSE LET r == FFromRatio(l.num, l.den)
         IN  IF r = FZero
             THEN [kind |-> "fl", v |-> CosineTop, ratio |-> FZero]
             ELSE [kind |-> "cos", v |-> FZero, ratio |-> r]

\* a <= b, when the floats or the facts about cos above decide it
LrLe(a, b) ==
    IF a.kind = "fl" /\ b.kind = "fl" THEN FLe(a.v, b.v)
    ELSE IF a.kind = "cos" /\ b.kind = "cos" THEN FLe(b.ratio, a.ratio)
    ELSE IF a.kind = "cos" THEN FLe(CosineTop, b.v)
    ELSE FLe(a.v, min_lr)
LrEq(a, x) == a.kind = "fl" /\ FCmp(a.v, x) = 0

\* line 405: the optimizer is built with learning_rate=6e-4, which is max_lr
InitialLr == [branch |-> "warmup", num |-> 1, den |-> 1, ok |-> TRUE]

NoLoader ==
    [B |-> B, T |-> T, process_rank |-> 0, num_processes |-> 1, shards |-> <<>>,
     current_shard |-> 0, tokens |-> NoTensor, current_position |-> 0]

\* A gradient is kept by what went into it: avg[r] counts the micro-batches
\* of rank r that entered it through an all-reduce average, loc[r] those
\* that were accumulated locally and not averaged; div holds the divisors
\* the losses were scaled by, clip the max_norm it was clipped to (0: not).
Zeros == [r \in Ranks |-> 0]
NoGrad == [avg |-> Zeros, loc |-> Zeros, div |-> {}, clip |-> 0]

\* loss = loss / grad_accum_Steps; loss.backward(): lines 479, 483
BackwardUnscaled(g, w, G) ==
    [g EXCEPT !.loc[w] = @ + 1, !.div = @ \cup {1}]
Backward(g, w, G) ==
    [g EXCEPT !.loc[w] = @ + 1, !.div = @ \cup {G}]

RECURSIVE SumLoc(_, _)
SumLoc(S, r) ==
    IF S = {} THEN 0
    ELSE LET v == CHOOSE v \in S : TRUE
         IN  grad[v].loc[r] + SumLoc(S \ {v}, r)

\* The all-reduce DDP runs in backward: every rank ends with the average of
\* what the ranks held.
AllReduced(g) ==
    [g EXCEPT !.avg = [r \in Ranks |-> @[r] + SumLoc(Ranks, r)], !.loc = Zeros]

\* optimizer.step(): line 492
Stepped(p, g, o) ==
    [n |-> p.n + 1,
     avg |-> [r \in Ranks |-> p.avg[r] + g.avg[r]],
     loc |-> [r \in Ranks |-> p.loc[r] + g.loc[r]],
     lr |-> o.lr, clip |-> g.clip, div |-> g.div]

\* the directories the script may find under edu_fineweb10B, per split
TrainDirs ==
    {<<>>, <<B * T + 1>>, <<3 * B * T + 1, 5 * B * T + 2>>,
     <<FinewebShard, FinewebShard>>}
ValDirs == {<<B * T + 1>>, <<FinewebShard>>}
WorldSizes == {1, 2, 3}

InitShapes(roots, shapes) ==
    /\ ddp \in BOOLEAN
    /\ ddp_world_size \in (IF ddp THEN WorldSizes ELSE {1})
    /\ data_root \in roots
    /\ batch_shape \in shapes
    /\ train_loader = [w \in Ranks |-> NoLoader]
    /\ val_loader = [w \in Ranks |-> NoLoader]
    /\ calls = [w \in Ranks |-> 0]
    /\ hist = [w \in Ranks |-> <<>>]
    /\ pass = [w \in Ranks |-> NoPass]
    /\ last = [w \in Ranks |-> NoCall]
    /\ pc = [w \in Ranks |-> "start"]
    /\ err = [w \in Ranks |-> "none"]
    /\ pg = [w \in Ranks |-> "none"]
    /\ step = [w \in Ranks |-> 0]
    /\ grad_accum_Steps = [w \in Ranks |-> 0]
    /\ val_i = [w \in Ranks |-> 0]
    /\ micro_steps = [w \in Ranks |-> 0]
    /\ ncoll = [w \in Ranks |-> 0]
    /\ ran = [w \in Ranks |-> NeverRan]
    /\ mode = [w \in Ranks |-> "train"]
    /\ require_backward_grad_sync = [w \in Ranks |-> TRUE]
    /\ expect_autograd_hooks = [w \in Ranks |-> FALSE]
    /\ grad = [w \in Ranks |-> NoGrad]
    /\ param = [w \in Ranks |-> [n |-> 0, avg |-> Zeros, loc |-> Zeros,
                                 lr |-> InitialLr, clip |-> 0, div |-> {}]]
    /\ opt = [w \in Ranks |-> [steps |-> 0, lr |-> InitialLr]]

\* lines 343-344: B = 8, T = 1024
InitWith(roots) == InitShapes(roots, {[B |-> B, T |-> T]})

Init == InitWith([train : TrainDirs, val : ValDirs])

Fail(w, e) ==
    /\ pc' = [pc EXCEPT ![w] = "failed"]
    /\ err' = [err EXCEPT ![w] = e]

\* line 411: if step % 100 == 0
ValDue(s) == s % eval_interval = 0
\* line 430: if step > 0 and step % 100 == 0
SampleDueAtZero(s) == s % eval_interval = 0
SampleDue(s) == s > 0 /\ s % eval_interval = 0

\* line 345: total_batch_size % (B*T*ddp_world_size) == 0
BatchSizeUnchecked(rows, cols, world) == TRUE
BatchSizeOk(rows, cols, world) == total_batch_size % (rows * cols * world) = 0

\* lines 311-405: process group, batch-size assertion, loaders, model, optimizer
Startup(w) ==
    /\ pc[w] = "start"
    /\ pg' = [pg EXCEPT ![w] = IF ddp THEN "up" ELSE "none"]
    /\ IF ~BatchSizeOk(batch_shape.B, batch_shape.T, ddp_world_size)
       THEN /\ Fail(w, "AssertionError: total batch size")
            /\ UNCHANGED <<grad_accum_Steps, train_loader, val_loader, mode>>
       ELSE /\ grad_accum_Steps' = [grad_accum_Steps EXCEPT ![w] =
                  total_batch_size \div (batch_shape.B * batch_shape.T * ddp_world_size)]
            /\ IF Len(data_root.train) = 0
               THEN /\ Fail(w, "AssertionError: no shards")
                    /\ UNCHANGED <<train_loader, val_loader, mode>>
               ELSE /\ train_loader' = [train_loader EXCEPT ![w] =
                          DataloaderLite(batch_shape.B, batch_shape.T, w,
                                         ddp_world_size, "train", data_root)]
                    /\ IF Len(data_root.val) = 0
                       THEN /\ Fail(w, "AssertionError: no shards")
                            /\ UNCHANGED <<val_loader, mode>>
                       ELSE /\ val_loader' = [val_loader EXCEPT ![w] =
                                  DataloaderLite(batch_shape.B, batch_shape.T, w,
                                                 ddp_world_size, "val", data_root)]
                            /\ mode' = [mode EXCEPT ![w] = "eval"]
                            /\ pc' = [pc EXCEPT ![w] = "loop"]
                            /\ UNCHANGED err
    /\ UNCHANGED <<ran, envvars, calls, hist, pass, last, step, val_i, micro_steps, ncoll,
                   require_backward_grad_sync, expect_autograd_hooks, grad, param, opt>>

\* line 407, then lines 411-413 when the validation gate opens, and lines
\* 502-505 when the loop is over
LoopHead(w) ==
    /\ pc[w] = "loop"
    /\ IF step[w] >= max_steps
       THEN /\ pg' = [pg EXCEPT ![w] = IF ddp THEN "destroyed" ELSE @]
            /\ pc' = [pc EXCEPT ![w] = "exited"]
            /\ UNCHANGED <<mode, val_loader, val_i>>
       ELSE IF ValDue(step[w])
       THEN /\ mode' = [mode EXCEPT ![w] = "eval"]
            /\ val_loader' = [val_loader EXCEPT ![w] = reset(@)]
            /\ val_i' = [val_i EXCEPT ![w] = 0]
            /\ pc' = [pc EXCEPT ![w] = "val"]
            /\ UNCHANGED pg
       ELSE /\ pc' = [pc EXCEPT ![w] = "sample_gate"]
            /\ UNCHANGED <<pg, mode, val_loader, val_i>>
    /\ ran' = [ran EXCEPT ![w].val =
          IF step[w] < max_steps /\ ValDue(step[w]) THEN step[w] ELSE @]
    /\ UNCHANGED <<envvars, dlvars, err, step, grad_accum_Steps, micro_steps, ncoll,
                   require_backward_grad_sync, expect_autograd_hooks, grad, param, opt>>

\* lines 414, 419-421: the forward of a validation batch runs under
\* torch.no_grad() and no backward follows: nothing reaches the gradients
WithBackward(g, w) == Backward(g, w, val_loss_steps)
UnderNoGrad(g, w) == g

\* lines 417-423: one validation batch under no_grad; after the last one
\* the all-reduce of line 424 when ddp
ValBatch(w) ==
    /\ pc[w] = "val"
    /\ LET r == next_batch(val_loader[w])
           more == val_i[w] + 1 < val_loss_steps
       IN  IF r.raised
           THEN /\ Fail(w, "RuntimeError: view")
                /\ UNCHANGED <<val_loader, val_i, ncoll, grad>>
           ELSE /\ val_loader' = [val_loader EXCEPT ![w] = r.self]
                /\ val_i' = [val_i EXCEPT ![w] = @ + 1]
                /\ grad' = [grad EXCEPT ![w] = UnderNoGrad(@, w)]
                /\ pc' = [pc EXCEPT ![w] =
                      IF more THEN "val"
                      ELSE IF ddp THEN "val_all_reduce" ELSE "sample_gate"]
                /\ ncoll' = [ncoll EXCEPT ![w] = IF ~more /\ ddp THEN @ + 1 ELSE @]
                /\ UNCHANGED err
    /\ UNCHANGED <<ran, envvars, dlvars, pg, step, grad_accum_Steps, micro_steps,
                   mode, require_backward_grad_sync, expect_autograd_hooks, param, opt>>

\* A collective returns on every rank once every rank has entered it.
AllAt(kind) ==
    \A w \in Ranks : pc[w] = kind /\ ncoll[w] = ncoll[0]

\* line 424: dist.all_reduce(val_loss_accum)
ValAllReduce ==
    /\ AllAt("val_all_reduce")
    /\ pc' = [w \in Ranks |-> "sample_gate"]
    /\ UNCHANGED <<ran, envvars, dlvars, val_loader, err, pg, step, grad_accum_Steps,
                   val_i, micro_steps, ncoll, netvars>>

\* line 430
SampleGate(w) ==
    /\ pc[w] = "sample_gate"
    /\ pc' = [pc EXCEPT ![w] =
          IF SampleDue(step[w]) THEN "sample" ELSE "train"]
    /\ ran' = [ran EXCEPT ![w].sample = IF SampleDue(step[w]) THEN step[w] ELSE @]
    /\ UNCHANGED <<envvars, dlvars, val_loader, err, pg, step, grad_accum_Steps,
                   val_i, micro_steps, ncoll, netvars>>

\* lines 431-442: dpp_rank of line 442 is a name nothing defines
Sample(w) ==
    /\ pc[w] = "sample"
    /\ mode' = [mode EXCEPT ![w] = "eval"]
    /\ Fail(w, "NameError: dpp_rank")
    /\ UNCHANGED <<ran, envvars, dlvars, val_loader, pg, step, grad_accum_Steps, val_i,
                   micro_steps, ncoll, require_backward_grad_sync,
                   expect_autograd_hooks, grad, param, opt>>

\* line 469
ModelTrain(w) ==
    /\ pc[w] = "train"
    /\ mode' = [mode EXCEPT ![w] = "train"]
    /\ pc' = [pc EXCEPT ![w] = "zero_grad"]
    /\ ran' = [ran EXCEPT ![w].train = step[w]]
    /\ UNCHANGED <<envvars, dlvars, val_loader, err, pg, step, grad_accum_Steps,
                   val_i, micro_steps, ncoll, require_backward_grad_sync,
                   expect_autograd_hooks, grad, param, opt>>

\* lines 470-472
ZeroGrad(w) ==
    /\ pc[w] = "zero_grad"
    /\ grad' = [grad EXCEPT ![w] = NoGrad]
    /\ micro_steps' = [micro_steps EXCEPT ![w] = 0]
    /\ pc' = [pc EXCEPT ![w] = "micro"]
    /\ UNCHANGED <<ran, envvars, dlvars, val_loader, err, pg, step, grad_accum_Steps,
                   val_i, ncoll, mode, require_backward_grad_sync,
                   expect_autograd_hooks, param, opt>>

\* where the process goes once micro-step m is over: line 472, line 484
AfterMicro(w, m) ==
    IF m + 1 < grad_accum_Steps[w] THEN "micro"
    ELSE IF ddp THEN "loss_all_reduce" ELSE "clip"

\* DistributedDataParallel.forward (line 478): with gradients enabled it reads
\* require_backward_grad_sync and, when set, arms the reducer for the
\* backward that follows ("the forward pass should be included inside the
\* [no_sync] context manager, or else gradients will still be synchronized").
ArmedInForward(w) ==
    expect_autograd_hooks[w] \/ (ddp /\ require_backward_grad_sync[w])

\* lines 473-483: one micro-step; when the reducer is armed the backward
\* enters the gradient all-reduce
MicroStep(w) ==
    /\ pc[w] = "micro"
    /\ LET r == next_batch(train_loader[w])
           armed == ArmedInForward(w)
           nxt == AfterMicro(w, micro_steps[w])
       IN  IF r.raised
           THEN /\ Fail(w, "RuntimeError: view")
                /\ UNCHANGED <<train_loader, calls, micro_steps, ncoll,
                               require_backward_grad_sync, expect_autograd_hooks, grad>>
           ELSE /\ train_loader' = [train_loader EXCEPT ![w] = r.self]
                /\ calls' = [calls EXCEPT ![w] = @ + 1]
                /\ expect_autograd_hooks' = [expect_autograd_hooks EXCEPT ![w] = armed]
                /\ require_backward_grad_sync' =
                      [require_backward_grad_sync EXCEPT ![w] =
                          IF ddp THEN micro_steps[w] = grad_accum_Steps[w] - 1 ELSE @]
                /\ grad' = [grad EXCEPT ![w] = Backward(@, w, grad_accum_Steps[w])]
                /\ IF armed
                   THEN /\ pc' = [pc EXCEPT ![w] = "grad_all_reduce"]
                        /\ ncoll' = [ncoll EXCEPT ![w] = @ + 1]
                        /\ UNCHANGED micro_steps
                   ELSE /\ pc' = [pc EXCEPT ![w] = nxt]
                        /\ micro_steps' = [micro_steps EXCEPT ![w] = @ + 1]
                        /\ ncoll' = [ncoll EXCEPT ![w] =
                              IF nxt = "loss_all_reduce" THEN @ + 1 ELSE @]
                /\ UNCHANGED err
    /\ UNCHANGED <<ran, envvars, val_loader, hist, pass, last, pg, step, grad_accum_Steps,
                   val_i, mode, param, opt>>

\* the all-reduce of the gradients inside loss.backward() (line 483)
GradAllReduce ==
    /\ AllAt("grad_all_reduce")
    /\ grad' = [w \in Ranks |-> AllReduced(grad[w])]
    /\ expect_autograd_hooks' = [w \in Ranks |-> FALSE]
    /\ micro_steps' = [w \in Ranks |-> micro_steps[w] + 1]
    /\ pc' = [w \in Ranks |-> AfterMicro(w, micro_steps[w])]
    /\ ncoll' = [w \in Ranks |->
          IF AfterMicro(w, micro_steps[w]) = "loss_all_reduce"
          THEN ncoll[w] + 1 ELSE ncoll[w]]
    /\ UNCHANGED <<ran, envvars, dlvars, val_loader, err, pg, step, grad_accum_Steps,
                   val_i, mode, require_backward_grad_sync, param, opt>>

\* line 485: dist.all_reduce(loss_accum)
LossAllReduce ==
    /\ AllAt("loss_all_reduce")
    /\ pc' = [w \in Ranks |-> "clip"]
    /\ UNCHANGED <<ran, envvars, dlvars, val_loader, err, pg, step, grad_accum_Steps,
                   val_i, micro_steps, ncoll, netvars>>

\* line 486
ClipGrad(w) ==
    /\ pc[w] = "clip"
    /\ grad' = [grad EXCEPT ![w].clip = max_norm]
    /\ pc' = [pc EXCEPT ![w] = "set_lr"]
    /\ UNCHANGED <<ran, envvars, dlvars, val_loader, err, pg, step, grad_accum_Steps,
                   val_i, micro_steps, ncoll, mode, require_backward_grad_sync,
                   expect_autograd_hooks, param, opt>>

\* lines 489-491
SetLr(w) ==
    /\ pc[w] = "set_lr"
    /\ IF get_lr(step[w]).ok
       THEN /\ opt' = [opt EXCEPT ![w].lr = get_lr(step[w])]
            /\ pc' = [pc EXCEPT ![w] = "opt_step"]
            /\ UNCHANGED err
       ELSE /\ Fail(w, "AssertionError: decay_ratio")
            /\ UNCHANGED opt
    /\ UNCHANGED <<ran, envvars, dlvars, val_loader, pg, step, grad_accum_Steps,
                   val_i, micro_steps, ncoll, mode, require_backward_grad_sync,
                   expect_autograd_hooks, grad, param>>

\* line 492
OptimizerStep(w) ==
    /\ pc[w] = "opt_step"
    /\ param' = [param EXCEPT ![w] = Stepped(@, grad[w], opt[w])]
    /\ opt' = [opt EXCEPT ![w].steps = @ + 1]
    /\ pc' = [pc EXCEPT ![w] = "step_end"]
    /\ UNCHANGED <<ran, envvars, dlvars, val_loader, err, pg, step, grad_accum_Steps,
                   val_i, micro_steps, ncoll, mode, require_backward_grad_sync,
                   expect_autograd_hooks, grad>>

\* lines 493-499, and the loop's next value of step
StepEnd(w) ==
    /\ pc[w] = "step_end"
    /\ step' = [step EXCEPT ![w] = @ + 1]
    /\ pc' = [pc EXCEPT ![w] = "loop"]
    /\ UNCHANGED <<ran, envvars, dlvars, val_loader, err, pg, grad_accum_Steps,
                   val_i, micro_steps, ncoll, netvars>>

Next ==
    \/ \E w \in Ranks : Startup(w)
    \/ \E w \in Ranks : LoopHead(w)
    \/ \E w \in Ranks : ValBatch(w)
    \/ \E w \in Ranks : SampleGate(w)
    \/ \E w \in Ranks : Sample(w)
    \/ \E w \in Ranks : ModelTrain(w)
    \/ \E w \in Ranks : ZeroGrad(w)
    \/ \E w \in Ranks : MicroStep(w)
    \/ \E w \in Ranks : ClipGrad(w)
    \/ \E w \in Ranks : SetLr(w)
    \/ \E w \in Ranks : OptimizerStep(w)
    \/ \E w \in Ranks : StepEnd(w)
    \/ ValAllReduce
    \/ GradAllReduce
    \/ LossAllReduce

Spec == Init /\ [][Next]_vars

\* the script over the dataset it is written for: shards of 100M tokens
InitFineweb ==
    InitWith({[train |-> <<FinewebShard, FinewebShard>>, val |-> <<FinewebShard>>]})
SpecFineweb == InitFineweb /\ [][Next]_vars

\* the script with other values written for B and T in lines 343-344
BatchShapes ==
    {[B |-> 8, T |-> 1024], [B |-> 16, T |-> 1024], [B |-> 64, T |-> 512],
     [B |-> 3, T |-> 1024], [B |-> 512, T |-> 1024], [B |-> 1024, T |-> 1024]}
InitBatchShapes ==
    InitShapes({[train |-> <<FinewebShard, FinewebShard>>, val |-> <<FinewebShard>>]},
               BatchShapes)
SpecBatchShapes == InitBatchShapes /\ [][Next]_vars

\* get_lr on its own: one call with any step up to MaxIt, which lies past
\* max_steps
LrInit ==
    /\ ddp = FALSE
    /\ ddp_world_size = 1
    /\ data_root = [train |-> <<>>, val |-> <<>>]
    /\ batch_shape = [B |-> B, T |-> T]
    /\ train_loader = [w \in Ranks |-> NoLoader]
    /\ val_loader = [w \in Ranks |-> NoLoader]
    /\ calls = [w \in Ranks |-> 0]
    /\ hist = [w \in Ranks |-> <<>>]
    /\ pass = [w \in Ranks |-> NoPass]
    /\ last = [w \in Ranks |-> NoCall]
    /\ pc = [w \in Ranks |-> "lr_call"]
    /\ err = [w \in Ranks |-> "none"]
    /\ pg = [w \in Ranks |-> "none"]
    /\ step \in [Ranks -> 0..MaxIt]
    /\ grad_accum_Steps = [w \in Ranks |-> 0]
    /\ val_i = [w \in Ranks |-> 0]
    /\ micro_steps = [w \in Ranks |-> 0]
    /\ ncoll = [w \in Ranks |-> 0]
    /\ ran = [w \in Ranks |-> NeverRan]
    /\ mode = [w \in Ranks |-> "train"]
    /\ require_backward_grad_sync = [w \in Ranks |-> TRUE]
    /\ expect_autograd_hooks = [w \in Ranks |-> FALSE]
    /\ grad = [w \in Ranks |-> NoGrad]
    /\ param = [w \in Ranks |-> [n |-> 0, avg |-> Zeros, loc |-> Zeros,
                                 lr |-> InitialLr, clip |-> 0, div |-> {}]]
    /\ opt = [w \in Ranks |-> [steps |-> 0, lr |-> InitialLr]]

\* lr = get_lr(step), written into the optimizer: lines 489-491
GetLr(w) ==
    /\ pc[w] = "lr_call"
    /\ IF get_lr(step[w]).ok
       THEN /\ opt' = [opt EXCEPT ![w].lr = get_lr(step[w])]
            /\ pc' = [pc EXCEPT ![w] = "lr_done"]
            /\ UNCHANGED err
       ELSE /\ Fail(w, "AssertionError: decay_ratio")
            /\ UNCHANGED opt
    /\ UNCHANGED <<ran, envvars, dlvars, val_loader, pg, step, grad_accum_Steps,
                   val_i, micro_steps, ncoll, mode, require_backward_grad_sync,
                   expect_autograd_hooks, grad, param>>

LrNext == \E w \in Ranks : GetLr(w)

SpecLr == LrInit /\ [][LrNext]_vars

---------------------------------------------------------------------------
(* Claims about DataloaderLite, checked under SpecDL.                      *)

BT(self) == self.B * self.T

\* C1: at the start of every next_batch() call the window
\* [current_position, current_position + B*T + 1) lies inside the active
\* shard, for shards of any length.
C1_CursorInShard ==
    \A w \in DLRanks :
        train_loader[w].current_position + BT(train_loader[w]) + 1
            <= Numel(train_loader[w].tokens)

\* C1, the case the code does keep: when every shard holds at least
\* B*T*num_processes + 1 tokens the window lies inside the active shard.
C1_LongShards ==
    (\A k \in 1..Len(data_root.train) :
        \A w \in DLRanks :
            data_root.train[k] >= BT(train_loader[w]) * ddp_world_size + 1)
    => C1_CursorInShard

\* C3: a call that returns gives input and target of shape (B, T) with
\* input[i][j] = tokens[p + i*T + j] and target[i][j] = tokens[p + i*T + j + 1],
\* p the position and tokens the shard at the start of the call.
C3_TargetIsShiftedInput ==
    \A w \in DLRanks :
        last[w].status = "ok" =>
            LET pre == last[w].pre
                p == pre.current_position
                x == last[w].x
                y == last[w].y
            IN  /\ x.B = pre.B /\ x.T = pre.T
                /\ y.B = pre.B /\ y.T = pre.T
                /\ \A i \in 0..(pre.B - 1) : \A j \in 0..(pre.T - 1) :
                      /\ p + i * pre.T + j + 1 < Numel(pre.tokens)
                      /\ At2(x, i, j) = At(pre.tokens, p + i * pre.T + j)
                      /\ At2(y, i, j) = At(pre.tokens, p + i * pre.T + j + 1)

\* the first batch of a single worker with B=1, T=4 over the ramp 0, 1, 2, ...
C3_Witness ==
    \E w \in DLRanks :
        /\ ddp_world_size = 1
        /\ last[w].status = "ok"
        /\ calls[w] = 1
        /\ last[w].pre.B = 1 /\ last[w].pre.T = 4
        /\ [j \in 1..4 |-> At2(last[w].x, 0, j - 1)] = <<0, 1, 2, 3>>
        /\ [j \in 1..4 |-> At2(last[w].y, 0, j - 1)] = <<1, 2, 3, 4>>

\* The cursor after a call that returned, against the cursor before it.
Stayed(pre, post) ==
    /\ post.current_shard = pre.current_shard
    /\ post.tokens = pre.tokens
    /\ post.current_position = pre.current_position + BT(pre) * pre.num_processes
Switched(pre, post) ==
    /\ post.current_shard = (pre.current_shard + 1) % Len(pre.shards)
    /\ post.tokens = load_tokens(pre.shards[post.current_shard + 1])
    /\ post.current_position = BT(pre) * pre.process_rank
\* after the advance the next window of all processes does not fit
NextRoundOverruns(pre) ==
    pre.current_position + 2 * BT(pre) * pre.num_processes + 1 > Numel(pre.tokens)

\* C4 as stated, for the calls that return: the call either stays on the shard
\* and advances by B*T*num_processes or, only when the advance overruns the
\* shard, switches to the next shard at B*T*rank; and when the first shard
\* holds exactly B*T+1 tokens it is the second call that switches.
C4_SecondCallSwitches ==
    \A w \in DLRanks :
        last[w].status = "ok" =>
            LET pre == last[w].pre
                post == train_loader[w]
            IN  /\ \/ Stayed(pre, post)
                   \/ NextRoundOverruns(pre) /\ Switched(pre, post)
                /\ (/\ pre.shards[1].len = BT(pre) + 1
                    /\ calls[w] = 2)
                   => Switched(pre, post)

\* C4 as the code has it: a call whose slice is short raises and leaves the
\* cursor alone; a call that returns switches shards exactly when, after the
\* advance, the next window of all processes does not fit, and otherwise
\* advances by B*T*num_processes; so every call that returns from a shard of
\* exactly B*T+1 tokens switches, the first call included.
C4_AdvanceOrRollover ==
    \A w \in DLRanks :
        LET pre == last[w].pre
            post == train_loader[w]
        IN  /\ last[w].status = "raised" =>
                /\ post = pre
                /\ pre.current_position + BT(pre) + 1 > Numel(pre.tokens)
            /\ last[w].status = "ok" =>
                /\ pre.current_position + BT(pre) + 1 <= Numel(pre.tokens)
                /\ IF NextRoundOverruns(pre)
                   THEN Switched(pre, post)
                   ELSE Stayed(pre, post)
                /\ Numel(pre.tokens) = BT(pre) + 1 => Switched(pre, post)

\* the first call over a first shard of B*T+1 tokens has moved to shard 1
C4_Witness ==
    \E w \in DLRanks :
        /\ last[w].status = "ok"
        /\ calls[w] = 1
        /\ Len(last[w].pre.shards) = 2
        /\ last[w].pre.shards[1].len = BT(last[w].pre) + 1
        /\ last[w].pre.current_shard = 0
        /\ train_loader[w].current_shard = 1

\* the B*T input positions of the window that starts at a
Window(self, a) == a..(a + BT(self) - 1)

\* C5: within one pass over a shard the input windows of two ranks never
\* overlap, and a rank never reads an input position twice.
C5_WindowsDisjoint ==
    /\ \A w \in DLRanks :
          \A m, n \in 1..Len(pass[w].starts) :
              m # n =>
                  Window(train_loader[w], pass[w].starts[m])
                      \cap Window(train_loader[w], pass[w].starts[n]) = {}
    /\ \A w, v \in DLRanks :
          (w # v /\ pass[w].shard = pass[v].shard) =>
              \A m \in 1..Len(pass[w].starts) : \A n \in 1..Len(pass[v].starts) :
                  Window(train_loader[w], pass[w].starts[m])
                      \cap Window(train_loader[v], pass[v].starts[n]) = {}

\* two ranks in a pass of the same shard, one of them with two windows read
C5_Witness ==
    \E w, v \in DLRanks :
        /\ w # v
        /\ pass[w].shard = pass[v].shard
        /\ Len(pass[w].starts) >= 2
        /\ Len(pass[v].starts) >= 1
        /\ BT(train_loader[w]) >= 2

\* the batches the first k calls return, starting from loader state self
RECURSIVE Replay(_, _)
Replay(self, k) ==
    IF k = 0 THEN <<>>
    ELSE LET r == next_batch(self)
         IN  IF r.raised THEN <<>>
             ELSE <<[x |-> r.x, y |-> r.y]>> \o Replay(r.self, k - 1)

Constructed(w) ==
    DataloaderLite(train_loader[w].B, train_loader[w].T, w, ddp_world_size,
                   "train", data_root)

\* C6: reset() puts the loader back into the state the constructor left it
\* in (shard 0, its tokens, position B*T*rank), whatever was called before;
\* the batches returned after a reset() are those returned after
\* construction; reset() twice is reset() once.
C6_ResetRewinds ==
    \A w \in DLRanks :
        /\ last[w].status = "reset" => train_loader[w] = Constructed(w)
        /\ hist[w] = Replay(Constructed(w), calls[w])
        /\ reset(reset(train_loader[w])) = reset(train_loader[w])
        /\ reset(train_loader[w]).current_shard = 0
        /\ reset(train_loader[w]).current_position
              = BT(train_loader[w]) * w

\* reset() has been called on a loader that had rolled over to shard 1 and
\* advanced there
C6_Witness ==
    \E w \in DLRanks :
        /\ last[w].status = "reset"
        /\ last[w].pre.current_shard = 1
        /\ last[w].pre.current_position > train_loader[w].current_position
        /\ train_loader[w].current_shard = 0

---------------------------------------------------------------------------
(* Claims about the training script, checked under Spec and SpecFineweb.   *)

\* the errors raised before the loop of line 407 is entered
StartupErrors ==
    {"AssertionError: total batch size", "AssertionError: no shards"}

\* C2: once the loop is entered every step completes without an error, and
\* a process exits only after max_steps optimizer steps, with its process
\* group destroyed when there is one.
C2_RunsToMaxSteps ==
    \A w \in Ranks :
        /\ err[w] \in {"none"} \cup StartupErrors
        /\ pc[w] = "exited" =>
              /\ step[w] = max_steps
              /\ opt[w].steps = max_steps
              /\ pg[w] = (IF ddp THEN "destroyed" ELSE "none")

\* C7: in multi-process mode the gradients are all-reduced in the backward
\* of the final micro-step only, so the gradient that is clipped and applied
\* is the average over all ranks of all grad_accum_Steps micro-batches, and
\* replicas that have taken the same number of steps hold equal parameters.
C7_SyncOnFinalMicroStep ==
    ddp =>
        \A w \in Ranks :
            /\ pc[w] = "grad_all_reduce" =>
                  micro_steps[w] = grad_accum_Steps[w] - 1
            /\ pc[w] \in {"loss_all_reduce", "clip", "set_lr", "opt_step"} =>
                  /\ grad[w].loc = Zeros
                  /\ grad[w].avg = [r \in Ranks |-> grad_accum_Steps[w]]
            /\ \A v \in Ranks :
                  (pc[v] # "start" /\ pc[w] # "start" /\ param[v].n = param[w].n)
                      => param[v] = param[w]

AfterValGate ==
    {"sample_gate", "sample", "train", "zero_grad", "micro", "grad_all_reduce",
     "loss_all_reduce", "clip", "set_lr", "opt_step", "step_end"}
AfterSampleGate == AfterValGate \ {"sample_gate"}
InTrainingStep == AfterSampleGate \ {"sample", "train"}

\* C8: in a step s the validation gate runs iff s % 100 = 0 and the sampling
\* gate iff s > 0 and s % 100 = 0; the validation gate comes before the
\* sampling gate and both before the training micro-steps; a validation pass
\* starts from the producer as reset() leaves it (shard 0, position B*T*rank)
\* and is over after exactly 20 batches.
C8_PeriodicGates ==
    \A w \in Ranks :
        LET s == step[w]
            fresh == DataloaderLite(B, T, w, ddp_world_size, "val", data_root)
        IN  /\ pc[w] \in {"val", "val_all_reduce"} =>
                  /\ s % 100 = 0 /\ ran[w].val = s
                  /\ ran[w].sample < s /\ ran[w].train < s
            /\ pc[w] \in AfterValGate =>
                  (ran[w].val = s <=> s % 100 = 0)
            /\ pc[w] = "sample_gate" => ran[w].sample < s /\ ran[w].train < s
            /\ pc[w] \in AfterSampleGate =>
                  (ran[w].sample = s <=> (s > 0 /\ s % 100 = 0))
            /\ pc[w] \in {"sample", "train"} => ran[w].train < s
            /\ pc[w] \in InTrainingStep => ran[w].train = s
            /\ pc[w] = "val" =>
                  /\ val_i[w] < 20
                  /\ val_i[w] = 0 => val_loader[w] = fresh
            /\ (pc[w] = "val_all_reduce" \/ (pc[w] \in AfterValGate /\ ran[w].val = s)) =>
                  val_i[w] = 20

\* step 100: the validation gate has run, 20 batches were read, and the
\* sampling gate is open after a training step in step 99
C8_Witness ==
    \E w \in Ranks :
        /\ pc[w] = "sample"
        /\ step[w] = 100
        /\ ran[w] = [val |-> 100, sample |-> 100, train |-> 99]
        /\ val_i[w] = 20

\* C9: a training step switches to training mode, zeroes the gradients, runs
\* grad_accum_Steps micro-steps of one next_batch() and one backward of
\* loss / grad_accum_Steps each, clips to max_norm 1, writes get_lr(step) into
\* the optimizer and takes one optimizer step; after s steps a process has
\* taken s optimizer steps and made s * grad_accum_Steps next_batch() calls.
C9_TrainingStepShape ==
    \A w \in Ranks :
        LET s == step[w]
            G == grad_accum_Steps[w]
            own == grad[w].loc[w] + grad[w].avg[w]
        IN  /\ pc[w] \notin {"start", "failed"} =>
                  G = total_batch_size \div (B * T * ddp_world_size)
            /\ pc[w] \in {"loop", "val", "val_all_reduce", "sample_gate",
                          "sample", "train", "zero_grad"} =>
                  opt[w].steps = s /\ param[w].n = s /\ calls[w] = s * G
            /\ pc[w] \in InTrainingStep => mode[w] = "train"
            /\ pc[w] = "micro" =>
                  /\ micro_steps[w] < G
                  /\ calls[w] = s * G + micro_steps[w]
                  /\ own = micro_steps[w]
            /\ pc[w] = "grad_all_reduce" =>
                  /\ micro_steps[w] < G
                  /\ calls[w] = s * G + micro_steps[w] + 1
                  /\ own = micro_steps[w] + 1
            /\ pc[w] \in {"micro", "grad_all_reduce"} =>
                  grad[w].div \subseteq {G} /\ grad[w].clip = 0 /\ opt[w].steps = s
            /\ pc[w] \in {"loss_all_reduce", "clip", "set_lr", "opt_step", "step_end"} =>
                  /\ micro_steps[w] = G
                  /\ calls[w] = (s + 1) * G
                  /\ own = G
                  /\ grad[w].div = {G}
            /\ pc[w] \in {"loss_all_reduce", "clip"} =>
                  grad[w].clip = 0 /\ opt[w].steps = s
            /\ pc[w] = "set_lr" => grad[w].clip = 1 /\ opt[w].steps = s
            /\ pc[w] = "opt_step" =>
                  /\ grad[w].clip = 1
                  /\ opt[w].lr = get_lr(s)
                  /\ opt[w].steps = s /\ param[w].n = s
            /\ pc[w] = "step_end" =>
                  /\ opt[w].steps = s + 1 /\ param[w].n = s + 1
                  /\ param[w].lr = get_lr(s)
                  /\ param[w].clip = 1
                  /\ param[w].div = {G}

\* two steps are complete: two optimizer steps, 2 * grad_accum_Steps batches
C9_Witness ==
    \E w \in Ranks :
        /\ pc[w] = "loop"
        /\ step[w] = 2
        /\ opt[w].steps = 2
        /\ grad_accum_Steps[w] > 1
        /\ calls[w] = 2 * grad_accum_Steps[w]
        /\ param[w].div = {grad_accum_Steps[w]}

Collectives == {"val_all_reduce", "grad_all_reduce", "loss_all_reduce"}

\* C10: the processes enter the same collectives in the same order, no
\* process waits in a collective that another process will never enter, and
\* the step counters of two processes differ by at most one.
C10_Lockstep ==
    /\ \A v, w \in Ranks : step[v] - step[w] <= 1
    /\ \A v, w \in Ranks :
          (pc[v] \in Collectives /\ pc[w] \in Collectives /\ ncoll[v] = ncoll[w])
              => pc[v] = pc[w]
    /\ \A w \in Ranks :
          pc[w] \in Collectives =>
              \A v \in Ranks : pc[v] \notin {"failed", "exited"}

---------------------------------------------------------------------------
(* Claims about get_lr, checked under SpecLr.                              *)

\* C11 as stated: get_lr(0) = max_lr / warmup_steps, get_lr(warmup_steps) =
\* max_lr, get_lr(max_steps) = min_lr, get_lr does not increase from
\* warmup_steps on, and no call fails the decay-ratio assertion.
C11_Schedule ==
    \A w \in Ranks :
        LET it == step[w]
            v == LrValue(opt[w].lr)
        IN  /\ pc[w] # "failed"
            /\ pc[w] = "lr_done" =>
                  /\ opt[w].lr.ok
                  /\ it = 0 => LrEq(v, FDivInt(max_lr, warmup_steps))
                  /\ it = warmup_steps => LrEq(v, max_lr)
                  /\ it = max_steps => LrEq(v, min_lr)
                  /\ it >= warmup_steps => LrLe(LrValue(get_lr(it + 1)), v)

\* C11 as the code has it: the same, but get_lr(warmup_steps) is
\* min_lr + 1.0 * (max_lr - min_lr) rounded, one unit in the last place below
\* max_lr; max_lr itself is returned at warmup_steps - 1, and no step gets
\* more than max_lr.
C11_ScheduleRounded ==
    \A w \in Ranks :
        LET it == step[w]
            v == LrValue(opt[w].lr)
        IN  /\ pc[w] # "failed"
            /\ pc[w] = "lr_done" =>
                  /\ opt[w].lr.ok
                  /\ it = 0 => LrEq(v, FDivInt(max_lr, warmup_steps))
                  /\ it = warmup_steps - 1 => LrEq(v, max_lr)
                  /\ it = warmup_steps =>
                        /\ v.kind = "fl"
                        /\ v.v.e = max_lr.e
                        /\ NAdd(v.v.m, <<1>>) = max_lr.m
                  /\ it = max_steps => LrEq(v, min_lr)
                  /\ it >= warmup_steps => LrLe(LrValue(get_lr(it + 1)), v)
                  /\ LrLe(v, [kind |-> "fl", v |-> max_lr, ratio |-> FZero])

\* get_lr(warmup_steps) has been called: the cosine branch at decay_ratio 0
C11_Witness ==
    \E w \in Ranks :
        /\ pc[w] = "lr_done"
        /\ step[w] = warmup_steps
        /\ opt[w].lr.branch = "cosine"
        /\ opt[w].lr.num = 0
        /\ FCmp(LrValue(opt[w].lr).v, max_lr) < 0

---------------------------------------------------------------------------
(* Claims about the batch-size assertion, checked under SpecBatchShapes.   *)

\* C12: for every B, T and world size, either total_batch_size is not a
\* multiple of B*T*world_size and the process stops with the assertion error
\* of line 345 before a loader, the model or the optimizer exists, or
\* grad_accum_Steps * B * T * world_size = total_batch_size = 524288 with
\* grad_accum_Steps >= 1, from startup on through every step.
C12_BatchSizeInvariant ==
    \A w \in Ranks :
        LET unit == batch_shape.B * batch_shape.T * ddp_world_size
        IN  IF total_batch_size % unit # 0
            THEN /\ pc[w] \in {"start", "failed"}
                 /\ pc[w] = "failed" => err[w] = "AssertionError: total batch size"
                 /\ train_loader[w] = NoLoader /\ val_loader[w] = NoLoader
                 /\ grad_accum_Steps[w] = 0
                 /\ mode[w] = "train" /\ param[w].n = 0
                 /\ opt[w] = [steps |-> 0, lr |-> InitialLr]
            ELSE pc[w] # "start" =>
                 /\ err[w] # "AssertionError: total batch size"
                 /\ grad_accum_Steps[w] * unit = 524288
                 /\ grad_accum_Steps[w] * unit = total_batch_size
                 /\ grad_accum_Steps[w] >= 1

\* B = 16 in place of 8: a third step is under way with 32 micro-steps each
C12_Witness ==
    \E w \in Ranks :
        /\ batch_shape = [B |-> 16, T |-> 1024]
        /\ ddp_world_size = 1
        /\ step[w] = 2
        /\ pc[w] = "micro"
        /\ grad_accum_Steps[w] = 32
        /\ calls[w] > 2 * 32

---------------------------------------------------------------------------
(* Claims about the rollover of several workers, checked under SpecDL.     *)

\* every call the rank made since the last reset() has returned
AllReturned(w) == Len(hist[w]) = calls[w]

Stride(self) == BT(self) * self.num_processes
\* the shard has room for one window of every rank
RoomForAll(self, len) == len >= Stride(self) + 1
\* the calls rank process_rank makes in a shard of len tokens before line 295
\* sends it on
CallsInShard(self, len) ==
    Max(1, (len - 1 - BT(self) * self.process_rank) \div Stride(self))
\* the last rank leaves a shard of len tokens at the same call as rank 0
LeaveTogether(self, len) ==
    (len - 1) % Stride(self) >= BT(self) * (self.num_processes - 1)

---------------------------------------------------------------------------
(* Claims about the validation gate, checked under Spec.                   *)

\* the process is in the validation gate, or enters it with this step
InValGate(w) ==
    \/ pc[w] \in {"val", "val_all_reduce"}
    \/ pc[w] = "loop" /\ pc'[w] = "val"

\* what the validation gate leaves alone on a process
TrainingStateKept(w) ==
    /\ param'[w] = param[w]
    /\ grad'[w] = grad[w]
    /\ opt'[w] = opt[w]
    /\ step'[w] = step[w]
    /\ train_loader'[w] = train_loader[w]
    /\ calls'[w] = calls[w]
    /\ grad_accum_Steps'[w] = grad_accum_Steps[w]
    /\ require_backward_grad_sync'[w] = require_backward_grad_sync[w]
    /\ expect_autograd_hooks'[w] = expect_autograd_hooks[w]

\* C14: a step of the validation gate leaves the parameters, the gradients,
\* the optimizer, the step counter and the training loader of the process as
\* they were; the gate runs in eval mode on the validation loader only, and
\* the micro-steps of training run in train mode.
C14_ValGateFrame ==
    /\ [][\A w \in Ranks : InValGate(w) => TrainingStateKept(w)]_vars
    /\ [](\A w \in Ranks :
            /\ pc[w] \in {"val", "val_all_reduce"} => mode[w] = "eval"
            /\ pc[w] \in {"micro", "grad_all_reduce"} => mode[w] = "train")

\* the validation gate of step 100 is over: 20 batches read, with 100
\* optimizer steps taken and the gradients of step 99 still in place
C14_Witness ==
    \E w \in Ranks :
        /\ pc[w] = "sample_gate"
        /\ step[w] = 100
        /\ ran[w].val = 100
        /\ val_i[w] = 20
        /\ mode[w] = "eval"
        /\ param[w].n = 100 /\ opt[w].steps = 100
        /\ grad[w].div = {grad_accum_Steps[w]}
        /\ calls[w] = 100 * grad_accum_Steps[w]

=============================================================================
